---- MODULE Spec2Model ----
(***************************************************************************)
(* A model of the parametric CAD helper layer of the small optical sorter  *)
(* (src/mechanics/utilities.py and the part classes that use it).          *)
(*                                                                         *)
(* Every helper is a synchronous function on a CadQuery workplane, so each *)
(* helper is modelled as its own small state machine: the state before the *)
(* call is built by the drawing operations (or drawn from the argument     *)
(* sets), one action is the call, and the state after it holds what the    *)
(* call returned and what it left in the modelling context.                *)
(*                                                                         *)
(*   SpecWire      union_pending / difference_pending                      *)
(*   SpecTW        transformedWorkplane                                    *)
(*   SpecSplit     splitcut                                                *)
(*   SpecTube      TubeSocket.__init__ and the measures TubeSocket.build   *)
(*                 reads                                                   *)
(*   SpecCoupling  SpiderCoupling.build / ShaftCoupling.build              *)
(***************************************************************************)
EXTENDS Integers, Sequences, FiniteSets, TLC

VARIABLES
    \* ---- the modelling context of one workplane chain (wire set-algebra)
    plane,          \* the named plane the wires are drawn on
    pendingWires,   \* ctx.pendingWires: sequence of closed wires
    pendingEdges,   \* ctx.pendingEdges: sequence of loose edges
    stack,          \* the objects of the workplane the chain currently holds
    ret,            \* what the wire operation returned ("none": not called)
    last,           \* the call made and the context it was made on
    \* ---- transformedWorkplane
    twArgs,         \* the arguments of the call
    twResult,       \* what the call did
    \* ---- splitcut
    scArgs,         \* cutting plane, solid and flags
    scResult,       \* what the call returned
    \* ---- TubeSocket
    measures,       \* the caller's measurement record (mutated in place)
    given,          \* the record as the caller passed it
    tsPc,           \* position in TubeSocket.__init__ / build
    tsError,        \* the attribute whose read failed, if any
    \* ---- SpiderCoupling / ShaftCoupling
    cpl,            \* class, coupler style and cog count
    cplPc,          \* position in build
    cplSteps,       \* the geometry steps performed so far
    cplOutcome,     \* how build ended
    \* ---- one call of a workplane helper (bracket, bolt, uProfile, ...)
    args,           \* the arguments of the call and the workplane it is made on
    result          \* what the call did

wireVars == <<plane, pendingWires, pendingEdges, stack, ret, last>>
twVars   == <<twArgs, twResult>>
scVars   == <<scArgs, scResult>>
tsVars   == <<measures, given, tsPc, tsError>>
cplVars  == <<cpl, cplPc, cplSteps, cplOutcome>>
callVars == <<args, result>>
vars     == <<wireVars, twVars, scVars, tsVars, cplVars, callVars>>

\* Python's None.
None == [kind |-> "None", val |-> <<>>]

\* No wire operation has been called yet.
NoCall == [op |-> "none", wires |-> <<>>, edges |-> <<>>, stack |-> <<>>]

(***************************************************************************)
(* Subsystems that a specification does not exercise stay idle.            *)
(***************************************************************************)
IdleWire ==
    /\ plane = "XY" /\ pendingWires = <<>> /\ pendingEdges = <<>>
    /\ stack = <<>> /\ ret = "none" /\ last = NoCall
IdleTW   == twArgs = None /\ twResult = None
IdleSC   == scArgs = None /\ scResult = None
IdleTS   == measures = None /\ given = None /\ tsPc = "idle" /\ tsError = "none"
IdleCpl  == cpl = None /\ cplPc = "idle" /\ cplSteps = <<>> /\ cplOutcome = "none"
IdleCall == args = None /\ result = None

(***************************************************************************)
(*                      WIRE SET-ALGEBRA ENGINE                            *)
(*                                                                         *)
(* The common plane of the wires is a GridN x GridN raster of unit cells.  *)
(* A closed wire is identified with the set of cells it encloses; a face   *)
(* is a region (set of cells) and a solid extruded from a face is          *)
(* identified with its footprint in the plane.                             *)
(***************************************************************************)
GridN    == 3    \* side of the raster
MaxWires == 2    \* most wires drawn before the operation is called
MaxEdges == 1    \* most loose edges drawn before the operation is called

Coord == 0 .. (GridN - 1)
Cell  == Coord \X Coord
\* The raster with one ring of cells around it: the outside of every shape.
Frame == (-1 .. GridN) \X (-1 .. GridN)

\* Extents of the rectangles drawn: one unit at any position, or the full side.
Span  == {{i} : i \in Coord} \cup {Coord}
\* .rect(w, h) at some centre point.
Rects == {xs \X ys : xs \in Span, ys \in Span}
\* A closed polyline outline that is not convex: the border ring of the raster,
\* open at the inner part of its right column.
CShape ==
    {c \in Cell : /\ c[1] \in {0, GridN - 1} \/ c[2] \in {0, GridN - 1}
                  /\ ~(c[1] = GridN - 1 /\ c[2] \notin {0, GridN - 1})}
Shapes == Rects \cup {CShape}

\* The named planes a workplane chain can be started on.
Planes == {"XY", "XZ", "YZ"}

Adj4(c, d) ==
    \/ c[1] = d[1] /\ (c[2] - d[2]) \in {-1, 1}
    \/ c[2] = d[2] /\ (c[1] - d[1]) \in {-1, 1}
Adj8(c, d) ==
    c # d /\ (c[1] - d[1]) \in {-1, 0, 1} /\ (c[2] - d[2]) \in {-1, 0, 1}

\* The part of R connected to S through shared cell sides (material).
RECURSIVE Grow4(_, _)
Grow4(S, R) ==
    LET N == {c \in R \ S : \E d \in S : Adj4(c, d)}
    IN  IF N = {} THEN S ELSE Grow4(S \cup N, R)
\* The part of R connected to S through shared sides or corners (empty space).
RECURSIVE Grow8(_, _)
Grow8(S, R) ==
    LET N == {c \in R \ S : \E d \in S : Adj8(c, d)}
    IN  IF N = {} THEN S ELSE Grow8(S \cup N, R)

\* .solids() / .faces() of a compound: its connected pieces.
RECURSIVE Components4(_)
Components4(R) ==
    IF R = {} THEN {}
    ELSE LET c == CHOOSE c \in R : TRUE
             C == Grow4({c}, R)
         IN  {C} \cup Components4(R \ C)
RECURSIVE Components8(_)
Components8(R) ==
    IF R = {} THEN {}
    ELSE LET c == CHOOSE c \in R : TRUE
             C == Grow8({c}, R)
         IN  {C} \cup Components8(R \ C)

\* What the outer wire of the connected face C encloses: C and its holes.
Fill(C) == Frame \ Grow8({<<-1, -1>>}, Frame \ C)
\* Face.wires(): the outer wire and one inner wire around each hole.
FaceWires(C) == {Fill(C)} \cup Components8(Fill(C) \ C)

\* .extrude(1) of one wire on the plane of the wires: the solid's footprint.
Extrude(wire) == wire

\* The 3D union of the extruded solids (extrude() combines with the solid
\* already in the chain, .combine() merges what is left).
FuseXor(wires) ==
    {c \in Cell : Cardinality({i \in DOMAIN wires : c \in Extrude(wires[i])}) % 2 = 1}
Fuse(wires) == UNION {Extrude(wires[i]) : i \in DOMAIN wires}

\* .faces(DirectionMinMaxSelector(extrude_direction, directionMax = False))
\* .wires(): the wires of every face of the solid(s) lying in the wire plane.
BottomWires(footprint) == UNION {FaceWires(C) : C \in Components4(footprint)}

\* The orders in which the kernel can list a set of wires.
Orderings(S) ==
    {s \in [1 .. Cardinality(S) -> S] : \A i, j \in DOMAIN s : i # j => s[i] # s[j]}

\* Workplane._consolidateWires(): the closed wires that are pending, in the
\* order they became pending. Loose pending edges do not close into a wire.
Consolidate == pendingWires

\* "Nothing to union for 0 or 1 pending wires."
NothingToDoOff(wires) == Len(wires) < 1
NothingToDo(wires) == Len(wires) < 2

WireObj(w) == [kind |-> "wire", cells |-> w]
EdgeObj    == [kind |-> "edge", cells |-> {}]
Objects(ws) == [i \in DOMAIN ws |-> WireObj(ws[i])]

\* The region a following extrude() makes of a list of pending wires: inner
\* wires are holes of the outer wire around them.
EnclosedRegion(ws) ==
    {c \in Cell : Cardinality({i \in DOMAIN ws : c \in ws[i]}) % 2 = 1}
EnclosedArea(ws) == Cardinality(EnclosedRegion(ws))

Call(op) ==
    [op |-> op, wires |-> pendingWires, edges |-> pendingEdges, stack |-> stack]

InitWire ==
    /\ plane \in Planes
    /\ pendingWires = <<>> /\ pendingEdges = <<>> /\ stack = <<>>
    /\ ret = "none" /\ last = NoCall
    /\ IdleTW /\ IdleSC /\ IdleTS /\ IdleCpl /\ IdleCall

\* A step of the wire engine leaves the other helpers alone.
OnlyWire == UNCHANGED <<twVars, scVars, tsVars, cplVars, callVars>>

\* .rect(...) or a closed polyline: the wire becomes pending and is the only
\* object on the stack.
draw ==
    /\ ret = "none"
    /\ Len(pendingWires) < MaxWires
    /\ \E w \in Shapes :
         /\ pendingWires' = Append(pendingWires, w)
         /\ stack' = <<WireObj(w)>>
    /\ UNCHANGED <<plane, pendingEdges, ret, last>>
    /\ OnlyWire

\* .lineTo(...): a loose edge becomes pending.
lineTo ==
    /\ ret = "none"
    /\ Len(pendingEdges) < MaxEdges
    /\ pendingEdges' = Append(pendingEdges, "edge")
    /\ stack' = <<EdgeObj>>
    /\ UNCHANGED <<plane, pendingWires, ret, last>>
    /\ OnlyWire

union_pending ==
    /\ ret = "none"
    /\ last' = Call("union")
    /\ LET wires == Consolidate IN
       IF NothingToDo(wires)
       THEN /\ ret' = "self"
            /\ UNCHANGED <<pendingWires, pendingEdges, stack>>
       ELSE \E combined_wire \in Orderings(BottomWires(Fuse(wires))) :
              IF combined_wire = <<>>
              THEN \* .val() of an empty selection raises
                   /\ pendingEdges' = <<>>
                   /\ ret' = "raised"
                   /\ UNCHANGED <<pendingWires, stack>>
              ELSE /\ pendingEdges' = <<>>
                   /\ pendingWires' = <<combined_wire[1]>>
                   /\ stack' = Objects(combined_wire)
                   /\ ret' = "newObject"
    /\ UNCHANGED plane
    /\ OnlyWire

\* The cutter of difference_pending is extruded on cq.Workplane("XY"), along
\* the global Z axis. On the XY plane that is the normal of the wire plane and
\* the cutter stands on its wire. On a plane that contains the Z axis the
\* sweep is flat: the kernel either fails or produces a cutter without volume.
CutterOutcomes(p) == IF p = "XY" THEN {"cut"} ELSE {"nocut", "raise"}

RECURSIVE CutAll(_, _, _)
CutAll(solid, others, outcome) ==
    IF others = <<>> THEN solid
    ELSE LET cutter == IF outcome = "cut" THEN Extrude(Head(others)) ELSE {}
         IN  CutAll(solid \ cutter, Tail(others), outcome)

difference_pending ==
    /\ ret = "none"
    /\ last' = Call("difference")
    /\ LET wires == Consolidate IN
       IF NothingToDo(wires)
       THEN /\ ret' = "self"
            /\ UNCHANGED <<pendingWires, pendingEdges, stack>>
       ELSE \E outcome \in CutterOutcomes(plane) :
              IF outcome = "raise"
              THEN /\ ret' = "raised"
                   /\ UNCHANGED <<pendingWires, pendingEdges, stack>>
              ELSE LET first_wire  == wires[1]
                       other_wires == Tail(wires)
                       solid == CutAll(Extrude(first_wire), other_wires, outcome)
                   IN  \E difference_wires \in Orderings(BottomWires(solid)) :
                         /\ pendingEdges' = <<>>
                         /\ pendingWires' = difference_wires
                         /\ stack' = Objects(difference_wires)
                         /\ ret' = "newObject"
    /\ UNCHANGED plane
    /\ OnlyWire

NextWire ==
    \/ draw
    \/ lineTo
    \/ union_pending
    \/ difference_pending

SpecWire == InitWire /\ [][NextWire]_vars


(***************************************************************************)
(* Claims about the wire set-algebra engine.                               *)
(***************************************************************************)
Range(seq) == {seq[i] : i \in DOMAIN seq}
StackWires == {stack[i].cells : i \in DOMAIN stack}
StackHoldsOnlyWires == \A i \in DOMAIN stack : stack[i].kind = "wire"
\* The boundary wires of a plane region: per connected piece the outline and
\* the outline of each hole.
Boundary(region) == UNION {FaceWires(C) : C \in Components4(region)}
RegionOf(ws) == UNION Range(ws)

Called(op)      == last.op = op
CalledOnMany(op) == Called(op) /\ Len(last.wires) >= 2
CalledOnFew(op)  == Called(op) /\ Len(last.wires) < 2

\* C1: after union_pending on two or more pending wires, the pending wires
\* and the stack are exactly the boundary wires of the union of the input
\* wires, whatever their number, and no edge is pending.
C1_UnionLeavesWholeBoundary ==
    CalledOnMany("union") =>
        /\ ret = "newObject"
        /\ pendingEdges = <<>>
        /\ StackHoldsOnlyWires
        /\ Range(pendingWires) = Boundary(RegionOf(last.wires))
        /\ StackWires = Boundary(RegionOf(last.wires))
        /\ Len(pendingWires) = Cardinality(Range(pendingWires))
        /\ Len(stack) = Cardinality(StackWires)

\* C2: the wires left pending by union_pending on two non-overlapping
\* rectangles enclose the sum of the two rectangles' areas.
C2_UnionAreaIsSum ==
    (/\ Called("union") /\ Len(last.wires) = 2
     /\ last.wires[1] \in Rects /\ last.wires[2] \in Rects
     /\ last.wires[1] \cap last.wires[2] = {})
    => EnclosedArea(pendingWires)
         = Cardinality(last.wires[1]) + Cardinality(last.wires[2])

\* C3: difference_pending on two or more pending wires leaves pending (and on
\* the stack) the boundary wires of the first wire's region minus the regions
\* of the others; for two rectangles A, B the area is area(A) - area(A n B).
C3_DifferenceIsFirstMinusRest ==
    CalledOnMany("difference") =>
        LET A    == last.wires[1]
            rest == RegionOf(Tail(last.wires))
        IN  /\ ret = "newObject"
            /\ StackHoldsOnlyWires
            /\ Range(pendingWires) = Boundary(A \ rest)
            /\ StackWires = Boundary(A \ rest)
            /\ EnclosedArea(pendingWires)
                 = Cardinality(A) - Cardinality(A \cap rest)

\* The wires the operation yields when every wire is extruded along the
\* normal of the wire plane.
AlongPlaneNormal ==
    IF Called("union")
    THEN BottomWires(Fuse(last.wires))
    ELSE BottomWires(CutAll(Extrude(last.wires[1]), Tail(last.wires), "cut"))

\* C22: in union_pending and in difference_pending every wire, each
\* subtracted wire included, is extruded along the normal of the wire plane,
\* so the call succeeds with the same resulting wires on every orientation
\* of that plane and not only on planes parallel to global XY.
C22_SameResultOnEveryPlane ==
    (CalledOnMany("union") \/ CalledOnMany("difference")) =>
        /\ ret = "newObject"
        /\ StackHoldsOnlyWires
        /\ StackWires = AlongPlaneNormal

C10_UnionIdempotent ==
    (/\ CalledOnMany("union")
     /\ \A i \in DOMAIN last.wires : last.wires[i] = last.wires[1])
    => /\ ret = "newObject"
       /\ Len(pendingWires) = 1
       /\ EnclosedArea(pendingWires) = Cardinality(last.wires[1])
C10_Witness ==
    /\ CalledOnMany("union") /\ ret = "newObject"
    /\ last.wires[1] = CShape
    /\ \A i \in DOMAIN last.wires : last.wires[i] = CShape

(***************************************************************************)
(*                        transformedWorkplane                             *)
(*                                                                         *)
(* A Python value is a record: None, a number, a 3-tuple or a list (a      *)
(* value of a wrong type). The call's effect is the pair of kernel calls   *)
(* it ends in, with the arguments it hands to them, or the exception it    *)
(* raises before it reaches them.                                          *)
(***************************************************************************)
Num(n)    == [kind |-> "num", val |-> <<n>>]
Tuple(t)  == [kind |-> "tuple", val |-> t]
List(t)   == [kind |-> "list", val |-> t]

Dists  == {0, 5}     \* distances used for offsets
Angles == {0, 45}    \* angles used for rotations
Triples(S) == {<<a, b, c>> : a \in S, b \in S, c \in S}

OffsetArgs  == {None, List(<<5, 5, 5>>)} \cup {Tuple(t) : t \in {<<0, 0, 0>>, <<5, 0, 5>>}}
RotateArgs  == {None, List(<<45, 45, 45>>)} \cup {Tuple(t) : t \in Triples(Angles)}
OffsetAxis  == {None} \cup {Num(d) : d \in Dists}
RotateAxis  == {None} \cup {Num(a) : a \in Angles}

TWArgs ==
    [offset : OffsetArgs, rotate : RotateArgs, invert : BOOLEAN,
     offset_x : OffsetAxis, offset_y : OffsetAxis, offset_z : OffsetAxis,
     rotate_x : RotateAxis, rotate_y : RotateAxis, rotate_z : RotateAxis]

Raised(exc) == [outcome |-> exc, rotate |-> <<>>, offset |-> <<>>, invert |-> FALSE]
\* self.workplane(invert = ...).transformed(rotate = r, offset = o)
Transformed(r, o, inv) ==
    [outcome |-> "transformed", rotate |-> r, offset |-> o, invert |-> inv]

\* "x = 0 if x == None else x"
OrZero(x) == IF x = None THEN Num(0) ELSE x

\* Lines 353-363: the local variables offset_x, offset_y, offset_z after the
\* offset block, or the exception it raises.
OffsetBlock(a) ==
    IF a.offset.kind = "tuple"
    THEN IF a.offset_x = None /\ a.offset_y = None /\ a.offset_z = None
         THEN [exc |-> "none",
               xyz |-> <<Num(a.offset.val[1]), Num(a.offset.val[2]), Num(a.offset.val[3])>>]
         ELSE [exc |-> "ValueError", xyz |-> <<>>]
    ELSE IF a.offset = None
    THEN [exc |-> "none",
          xyz |-> <<OrZero(a.offset_x), OrZero(a.offset_y), OrZero(a.offset_z)>>]
    ELSE [exc |-> "ValueError", xyz |-> <<>>]

\* Lines 365-375: the rotation block, entered with the offsets o. With a
\* tuple rotate it unpacks `offset` (not `rotate`) into the offset variables:
\* unpacking None is a TypeError, and rotate_x, rotate_y, rotate_z stay None.
RotateBlockLax(a, o) ==
    IF a.rotate.kind = "tuple"
    THEN IF a.offset = None
         THEN [exc |-> "TypeError", xyz |-> <<>>, rot |-> <<>>]
         ELSE [exc |-> "none",
               xyz |-> <<Num(a.offset.val[1]), Num(a.offset.val[2]), Num(a.offset.val[3])>>,
               rot |-> <<a.rotate_x, a.rotate_y, a.rotate_z>>]
    ELSE IF a.rotate = None
    THEN [exc |-> "none", xyz |-> o,
          rot |-> <<OrZero(a.rotate_x), OrZero(a.rotate_y), OrZero(a.rotate_z)>>]
    ELSE [exc |-> "ValueError", xyz |-> <<>>, rot |-> <<>>]
RotateBlock(a, o) ==
    IF a.rotate.kind = "tuple"
    THEN IF a.rotate_x = None /\ a.rotate_y = None /\ a.rotate_z = None
         THEN IF a.offset = None
              THEN [exc |-> "TypeError", xyz |-> <<>>, rot |-> <<>>]
              ELSE [exc |-> "none",
                    xyz |-> <<Num(a.offset.val[1]), Num(a.offset.val[2]),
                              Num(a.offset.val[3])>>,
                    rot |-> <<a.rotate_x, a.rotate_y, a.rotate_z>>]
         ELSE [exc |-> "ValueError", xyz |-> <<>>, rot |-> <<>>]
    ELSE IF a.rotate = None
    THEN [exc |-> "none", xyz |-> o,
          rot |-> <<OrZero(a.rotate_x), OrZero(a.rotate_y), OrZero(a.rotate_z)>>]
    ELSE [exc |-> "ValueError", xyz |-> <<>>, rot |-> <<>>]

transformedWorkplane(a) ==
    LET o == OffsetBlock(a) IN
    IF o.exc # "none" THEN Raised(o.exc)
    ELSE LET r == RotateBlock(a, o.xyz) IN
         IF r.exc # "none" THEN Raised(r.exc)
         ELSE Transformed(r.rot, r.xyz, a.invert)

InitTW ==
    /\ twArgs \in TWArgs
    /\ twResult = None
    /\ IdleWire /\ IdleSC /\ IdleTS /\ IdleCpl /\ IdleCall

callTransformedWorkplane ==
    /\ twResult = None
    /\ twResult' = transformedWorkplane(twArgs)
    /\ UNCHANGED <<twArgs, wireVars, scVars, tsVars, cplVars, callVars>>

NextTW == callTransformedWorkplane

SpecTW == InitTW /\ [][NextTW]_vars

(***************************************************************************)
(* Claims about transformedWorkplane.                                      *)
(***************************************************************************)
TWCalled == twResult # None
NoAxis(x, y, z) == x = None /\ y = None /\ z = None

\* The call that gives the elements of the rotate tuple of `a` per axis.
PerAxisRotation(a) ==
    [a EXCEPT !.rotate = None,
              !.rotate_x = Num(a.rotate.val[1]),
              !.rotate_y = Num(a.rotate.val[2]),
              !.rotate_z = Num(a.rotate.val[3])]

\* C4: a call with rotate = (a, b, c) and no per-axis rotation does what the
\* call with rotate_x = a, rotate_y = b, rotate_z = c and the same offset
\* arguments does.
C4_RotateTupleIsPerAxis ==
    (/\ TWCalled
     /\ twArgs.rotate.kind = "tuple"
     /\ NoAxis(twArgs.rotate_x, twArgs.rotate_y, twArgs.rotate_z))
    => twResult = transformedWorkplane(PerAxisRotation(twArgs))

\* C6: a tuple offset together with any per-axis offset, or a tuple rotate
\* together with any per-axis rotation, raises ValueError and no workplane is
\* created.
C6_TupleAndAxisRaise ==
    (/\ TWCalled
     /\ \/ /\ twArgs.offset.kind = "tuple"
           /\ ~NoAxis(twArgs.offset_x, twArgs.offset_y, twArgs.offset_z)
        \/ /\ twArgs.rotate.kind = "tuple"
           /\ ~NoAxis(twArgs.rotate_x, twArgs.rotate_y, twArgs.rotate_z))
    => twResult = Raised("ValueError")
C6_Witness ==
    /\ TWCalled
    /\ twArgs.offset = None /\ twArgs.offset_y = Num(5)
    /\ twArgs.rotate.kind = "tuple" /\ twArgs.rotate_z = Num(0)
    /\ twArgs.rotate_x = None /\ twArgs.rotate_y = None
    /\ twResult.outcome = "ValueError"

(***************************************************************************)
(*                              splitcut                                   *)
(*                                                                         *)
(* The cutting workplane is rotated about the global X axis (as TubeSocket *)
(* does), so positions are (y, z) pairs relative to the workplane origin.  *)
(* zDir is the local Z axis of the workplane in global coordinates. The    *)
(* solids the thin-box cut leaves are given by their centres; a solid lies *)
(* on the positive local-Z side when its centre does.                      *)
(***************************************************************************)
MaxSolids == 3    \* most solids the cut leaves

Vec2  == ({-1, 0, 1} \X {-1, 0, 1}) \ {<<0, 0>>}
Dot(u, v) == u[1] * v[1] + u[2] * v[2]
\* Global Z coordinate of a position.
GlobalZ(c) == c[2]

\* The sets of solids a cut along a workplane with local Z axis n can leave.
SolidSets(n) ==
    {P \in SUBSET {c \in Vec2 : Dot(c, n) # 0} : Cardinality(P) \in 1 .. MaxSolids}
SCArgs ==
    UNION {[zDir : {n}, solids : SolidSets(n), keepTop : BOOLEAN, keepBottom : BOOLEAN] :
              n \in Vec2}

Workplane(objs) == [kind |-> "Workplane", val |-> objs]

\* result.solids(">Z") and result.solids("<Z"): the solids whose centre is
\* farthest along, respectively against, the global Z axis.
SolidsMaxZ(S) == {c \in S : \A d \in S : GlobalZ(d) <= GlobalZ(c)}
SolidsMinZ(S) == {c \in S : \A d \in S : GlobalZ(d) >= GlobalZ(c)}

\* Lines 509-514. With two solids and neither flag set no branch returns.
splitcut(a) ==
    IF Cardinality(a.solids) = 2
    THEN IF a.keepTop /\ a.keepBottom THEN Workplane(a.solids)
         ELSE IF a.keepTop /\ ~a.keepBottom
              THEN Workplane(SolidsMaxZ(a.solids))
         ELSE IF ~a.keepTop /\ a.keepBottom
              THEN Workplane(SolidsMinZ(a.solids))
         ELSE None
    ELSE Workplane(a.solids)

NotCalled == [kind |-> "not called", val |-> <<>>]

InitSC ==
    /\ scArgs \in SCArgs
    /\ scResult = NotCalled
    /\ IdleWire /\ IdleTW /\ IdleTS /\ IdleCpl /\ IdleCall

callSplitcut ==
    /\ scResult = NotCalled
    /\ scResult' = splitcut(scArgs)
    /\ UNCHANGED <<scArgs, wireVars, twVars, tsVars, cplVars, callVars>>

NextSC == callSplitcut

SpecSplit == InitSC /\ [][NextSC]_vars

(***************************************************************************)
(* Claims about splitcut.                                                  *)
(***************************************************************************)
TopSide(a)    == {c \in a.solids : Dot(c, a.zDir) > 0}
BottomSide(a) == {c \in a.solids : Dot(c, a.zDir) < 0}
\* The cut has left one solid on each side of the workplane.
CutInTwo(a) ==
    /\ Cardinality(a.solids) = 2
    /\ Cardinality(TopSide(a)) = 1 /\ Cardinality(BottomSide(a)) = 1

\* C5: when the cut yields two solids, keepTop returns the one on the
\* positive local-Z side of the cutting workplane, keepBottom the one on the
\* negative side and both flags both, for every orientation of the workplane.
C5_SplitcutKeepsLocalSide ==
    (scResult # NotCalled /\ CutInTwo(scArgs) /\ (scArgs.keepTop \/ scArgs.keepBottom))
    => /\ scResult.kind = "Workplane"
       /\ scResult.val = (IF scArgs.keepTop THEN TopSide(scArgs) ELSE {})
                           \cup (IF scArgs.keepBottom THEN BottomSide(scArgs) ELSE {})

\* C28: splitcut returns a workplane holding at least one solid for every
\* combination of keepTop and keepBottom, the default (both False) included,
\* and for every number of solids the cut leaves; it never returns nothing.
C28_SplitcutAlwaysReturnsSolids ==
    scResult # NotCalled =>
        /\ scResult.kind = "Workplane"
        /\ scResult.val # {}
        /\ scResult.val \subseteq scArgs.solids

(***************************************************************************)
(*                             TubeSocket                                  *)
(*                                                                         *)
(* The measurement record is flattened: input.cut_angle is input_cut_angle *)
(* and so on. An attribute is <<v>> when it is set to v and <<>> when the  *)
(* record does not have it; reading an attribute it does not have raises   *)
(* AttributeError. Lengths are even numbers so that halving is exact.      *)
(***************************************************************************)
Missing == <<>>
Has(m, f) == m[f] # Missing

\* The measures the defaulting block of __init__ covers.
TopOptional ==
    {"length_before_wall", "length_after_wall", "horizontal_angle", "angle",
     "transition_pos", "transition_length", "input_cut_angle", "output_cut_angle",
     "seal_cavity", "wall_grooves"}
GrooveFlags == {"grooves_left", "grooves_right", "grooves_top", "grooves_bottom"}
Optional == TopOptional \cup GrooveFlags
\* The measures every caller has to give.
Required ==
    {"shell_thickness", "wall_thickness", "wall_groove_depth",
     "input_inner_diameter", "output_inner_diameter"}
\* The measures the constructor derives.
Derived ==
    {"length", "input_outer_diameter", "output_outer_diameter",
     "wall_width", "wall_height"}
Fields == Required \cup Optional \cup Derived

\* The value a caller gives for a measure (the record at the end of
\* tube_socket.py, with the lengths made even).
Supplied(f) ==
    CASE f = "shell_thickness"       -> <<3>>
      [] f = "wall_thickness"        -> <<12>>
      [] f = "wall_groove_depth"     -> <<8>>
      [] f = "input_inner_diameter"  -> <<32>>
      [] f = "output_inner_diameter" -> <<26>>
      [] f = "length_before_wall"    -> <<18>>
      [] f = "length_after_wall"     -> <<60>>
      [] f = "horizontal_angle"      -> <<10>>
      [] f = "angle"                 -> <<40>>
      [] f = "transition_pos"        -> <<48>>
      [] f = "transition_length"     -> <<6>>
      [] f = "input_cut_angle"       -> <<-30>>
      [] f = "output_cut_angle"      -> <<49>>
      [] f = "seal_cavity"           -> <<"Measures">>
      [] f = "wall_grooves"          -> <<"Measures">>
      [] f \in GrooveFlags           -> <<TRUE>>

\* The records a caller can pass: the required measures and any of the
\* optional ones; the groove flags live in wall.grooves.
Callers ==
    {P \in SUBSET Optional : (P \cap GrooveFlags # {}) => "wall_grooves" \in P}
Record(P) ==
    [f \in Fields |-> IF f \in Required \cup P THEN Supplied(f) ELSE Missing]

\* The documented default of an optional measure (docstring, lines 40-74);
\* transition_pos defaults to the middle of the tube.
Default(m, f) ==
    CASE f \in {"length_before_wall", "length_after_wall", "horizontal_angle",
                "angle", "input_cut_angle", "output_cut_angle"} -> <<0>>
      [] f = "transition_pos"    -> <<m["length"][1] \div 2>>
      [] f = "transition_length" -> m["shell_thickness"]
      [] f = "seal_cavity"       -> <<"None">>
      [] f = "wall_grooves"      -> <<"Measures">>
      [] f \in GrooveFlags       -> <<FALSE>>

\* "if not hasattr(measures, f): measures.f = v"
SetIfMissing(m, f, target, v) ==
    IF Has(m, f) THEN m ELSE [m EXCEPT ![target] = v]

\* The attributes a block reads, in order, and the first of them that is
\* missing ("none" when every read succeeds).
RECURSIVE FirstMissing(_, _)
FirstMissing(m, reads) ==
    IF reads = <<>> THEN "none"
    ELSE IF ~Has(m, Head(reads)) THEN Head(reads)
    ELSE FirstMissing(m, Tail(reads))

\* Lines 90-97.
AdaptReads ==
    <<"length_before_wall", "wall_thickness", "length_after_wall",
      "input_inner_diameter", "shell_thickness", "output_inner_diameter">>
Adapt(m) ==
    LET half == m["wall_thickness"][1] \div 2
        lbw  == m["length_before_wall"][1] + half
        law  == m["length_after_wall"][1] + half
    IN  [m EXCEPT
           !["length_before_wall"] = <<lbw>>,
           !["length_after_wall"]  = <<law>>,
           !["length"] = <<lbw + law>>,
           !["input_outer_diameter"] =
               <<m["input_inner_diameter"][1] + 2 * m["shell_thickness"][1]>>,
           !["output_outer_diameter"] =
               <<m["output_inner_diameter"][1] + 2 * m["shell_thickness"][1]>>]

\* Lines 102-115, one presence check after the other. The check of
\* transition_length (line 107) assigns transition_pos.
RECURSIVE FillDefaults(_, _)
FillDefaults(m, fs) ==
    IF fs = <<>> THEN m
    ELSE LET f == Head(fs)
             target == IF f = "transition_length" THEN "transition_pos" ELSE f
         IN  FillDefaults(SetIfMissing(m, f, target, Default(m, f)), Tail(fs))
DefaultingOrder ==
    <<"length_before_wall", "length_after_wall", "horizontal_angle", "angle",
      "transition_pos", "transition_length", "input_cut_angle", "output_cut_angle",
      "seal_cavity", "wall_grooves", "grooves_left", "grooves_right",
      "grooves_top", "grooves_bottom">>

\* The measures build reads, in the order it reads them (lines 129-226).
BuildReads ==
    <<"output_outer_diameter", "length", "transition_pos", "transition_length",
      "input_outer_diameter", "seal_cavity", "shell_thickness",
      "input_cut_angle", "output_cut_angle", "length_after_wall", "angle",
      "horizontal_angle", "wall_thickness", "wall_groove_depth",
      "grooves_right", "grooves_left", "grooves_top", "grooves_bottom">>

\* Lines 206-227: the wall is the bounding box of the tube inside the wall,
\* at least as wide and high as the wider tube end, plus the groove depths.
Max(a, b) == IF a >= b THEN a ELSE b
Groove(m, f) == IF m[f][1] THEN m["wall_groove_depth"][1] ELSE 0
Build(m) ==
    LET box == Max(m["input_outer_diameter"][1], m["output_outer_diameter"][1])
    IN  [m EXCEPT
           !["wall_width"]  = <<box + Groove(m, "grooves_right") + Groove(m, "grooves_left")>>,
           !["wall_height"] = <<box + Groove(m, "grooves_top") + Groove(m, "grooves_bottom")>>]

InitTS ==
    /\ \E P \in Callers : measures = Record(P)
    /\ given = measures
    /\ tsPc = "new" /\ tsError = "none"
    /\ IdleWire /\ IdleTW /\ IdleSC /\ IdleCpl /\ IdleCall

OnlyTS == UNCHANGED <<wireVars, twVars, scVars, cplVars, callVars>>

\* TubeSocket.__init__, lines 85-97.
TubeSocket_adapt ==
    /\ tsPc = "new"
    /\ LET miss == FirstMissing(measures, AdaptReads) IN
       IF miss # "none"
       THEN tsPc' = "AttributeError" /\ tsError' = miss /\ UNCHANGED measures
       ELSE tsPc' = "adapted" /\ measures' = Adapt(measures) /\ UNCHANGED tsError
    /\ UNCHANGED given /\ OnlyTS

\* TubeSocket.__init__, lines 99-115.
TubeSocket_defaults ==
    /\ tsPc = "adapted"
    /\ measures' = FillDefaults(measures, DefaultingOrder)
    /\ tsPc' = "defaulted"
    /\ UNCHANGED <<given, tsError>> /\ OnlyTS

\* TubeSocket.build, lines 120-242.
TubeSocket_build ==
    /\ tsPc = "defaulted"
    /\ LET miss == FirstMissing(measures, BuildReads) IN
       IF miss # "none"
       THEN tsPc' = "AttributeError" /\ tsError' = miss /\ UNCHANGED measures
       ELSE tsPc' = "built" /\ measures' = Build(measures) /\ UNCHANGED tsError
    /\ UNCHANGED given /\ OnlyTS

NextTS ==
    \/ TubeSocket_adapt
    \/ TubeSocket_defaults
    \/ TubeSocket_build

SpecTube == InitTS /\ [][NextTS]_vars

(***************************************************************************)
(* Claims about TubeSocket.                                                *)
(***************************************************************************)
\* The optional measures the caller left out.
Omitted == {f \in Optional : ~Has(given, f)}

\* C7: every optional measure of the defaulting block that the caller omits
\* has its documented default once the block has run, and construction with
\* any subset of them omitted never fails on a missing attribute.
C7_OmittedMeasuresAreDefaulted ==
    /\ tsPc # "AttributeError"
    /\ tsPc \in {"defaulted", "built"} =>
         \A f \in Omitted : measures[f] = Default(measures, f)

(***************************************************************************)
(*                  SpiderCoupling / ShaftCoupling                         *)
(*                                                                         *)
(* build() is a straight sequence of geometry steps on self.model; each    *)
(* step is one action and cplSteps lists the steps performed. Neither      *)
(* class inspects the cog count before it is handed to polygon() and       *)
(* point_sector() in the last step.                                        *)
(***************************************************************************)
MaxCogs == 8    \* largest cog count a caller asks for

CogCounts == 1 .. MaxCogs
\* The counts the cog generation code works for (todo in both docstrings).
WorkingCogs == {4, 6}

Couplings ==
    [class : {"SpiderCoupling"}, style : {"spider"}, cogs : CogCounts]
    \cup [class : {"ShaftCoupling"}, style : {"spider", "hexagonal"}, cogs : CogCounts]

\* What the kernel makes of the cog wires: a part for the counts the code
\* works for; otherwise an exception from inside the kernel or a part with
\* malformed cogs.
CogOutcomes(n) ==
    IF n \in WorkingCogs THEN {"part"} ELSE {"kernel error", "malformed part"}

InitCpl ==
    /\ cpl \in Couplings
    /\ cplPc = "build" /\ cplSteps = <<>> /\ cplOutcome = "none"
    /\ IdleWire /\ IdleTW /\ IdleSC /\ IdleTS /\ IdleCall

OnlyCpl == UNCHANGED <<wireVars, twVars, scVars, tsVars, callVars>>

\* The coupling base: circle(diameter / 2).extrude(base_height).
base_extrusion ==
    /\ cplPc = "build"
    /\ cplSteps' = Append(cplSteps, "base extrusion")
    /\ cplPc' = "shaft"
    /\ UNCHANGED <<cpl, cplOutcome>> /\ OnlyCpl

\* The cutout(s) for the shaft(s).
shaft_cut ==
    /\ cplPc = "shaft"
    /\ cplSteps' = Append(cplSteps, "shaft cut")
    /\ cplPc' = "groove"
    /\ UNCHANGED <<cpl, cplOutcome>> /\ OnlyCpl

\* The groove in the base for clamping the shaft.
clamping_groove ==
    /\ cplPc = "groove"
    /\ cplSteps' = Append(cplSteps, "clamping groove")
    /\ cplPc' = "bolts"
    /\ UNCHANGED <<cpl, cplOutcome>> /\ OnlyCpl

\* The cutouts for the clamping nuts and bolts.
bolt_cuts ==
    /\ cplPc = "bolts"
    /\ cplSteps' = Append(cplSteps, "bolt cuts")
    /\ cplPc' = "coupler"
    /\ UNCHANGED <<cpl, cplOutcome>> /\ OnlyCpl

\* The cogs: polygon(nSides = count) ... point_sector ... union_pending ...
\* difference_pending ... extrude ... fillet.
coupler_cogs ==
    /\ cplPc = "coupler" /\ cpl.style = "spider"
    /\ \E o \in CogOutcomes(cpl.cogs) :
         /\ cplOutcome' = o
         /\ cplSteps' = IF o = "kernel error" THEN cplSteps
                        ELSE Append(cplSteps, "cogs")
    /\ cplPc' = "done"
    /\ UNCHANGED cpl /\ OnlyCpl

\* The hexagonal coupler does not use the cog count.
coupler_hexagonal ==
    /\ cplPc = "coupler" /\ cpl.style = "hexagonal"
    /\ cplOutcome' = "part"
    /\ cplSteps' = Append(cplSteps, "hexagon")
    /\ cplPc' = "done"
    /\ UNCHANGED cpl /\ OnlyCpl

NextCpl ==
    \/ base_extrusion
    \/ shaft_cut
    \/ clamping_groove
    \/ bolt_cuts
    \/ coupler_cogs
    \/ coupler_hexagonal

SpecCoupling == InitCpl /\ [][NextCpl]_vars

(***************************************************************************)
(* Claims about the couplings.                                             *)
(***************************************************************************)
UnsupportedSpider == cpl.style = "spider" /\ cpl.cogs \notin WorkingCogs

\* C8: building a spider-style coupling with a cog count other than 4 or 6
\* performs no geometry step, ends in an error and returns no part.
C8_UnsupportedCogsRaiseFirst ==
    UnsupportedSpider =>
        /\ cplSteps = <<>>
        /\ cplPc = "done" => cplOutcome = "kernel error"

(***************************************************************************)
(*                 Numbers, vectors and local frames                       *)
(*                                                                         *)
(* A Python float is modelled exactly, as a reduced fraction <<n, d>> with *)
(* d > 0. A vector is a triple of integers. A Plane is an origin and three *)
(* orthonormal directions in global coordinates.                           *)
(***************************************************************************)
Abs(n) == IF n < 0 THEN -n ELSE n
Min(a, b) == IF a <= b THEN a ELSE b
RECURSIVE GCD(_, _)
GCD(a, b) == IF b = 0 THEN a ELSE GCD(b, a % b)
Frac(n, d) ==
    LET g == GCD(Abs(n), Abs(d))
        sgn == IF d < 0 THEN -1 ELSE 1
    IN  <<(sgn * n) \div g, (sgn * d) \div g>>
Whole(n) == <<n, 1>>
QAdd(p, q) == Frac(p[1] * q[2] + q[1] * p[2], p[2] * q[2])
QNeg(p)    == <<-p[1], p[2]>>
QMul(p, q) == Frac(p[1] * q[1], p[2] * q[2])
QDiv(p, q) == Frac(p[1] * q[2], p[2] * q[1])
QLess(p, q) == p[1] * q[2] < q[1] * p[2]

Units == {<<1, 0, 0>>, <<-1, 0, 0>>, <<0, 1, 0>>, <<0, -1, 0>>, <<0, 0, 1>>, <<0, 0, -1>>}
VAdd(u, v) == <<u[1] + v[1], u[2] + v[2], u[3] + v[3]>>
VSub(u, v) == <<u[1] - v[1], u[2] - v[2], u[3] - v[3]>>
VScale(k, v) == <<k * v[1], k * v[2], k * v[3]>>
VDot(u, v) == u[1] * v[1] + u[2] * v[2] + u[3] * v[3]
Cross(u, v) ==
    <<u[2] * v[3] - u[3] * v[2], u[3] * v[1] - u[1] * v[3], u[1] * v[2] - u[2] * v[1]>>

\* The workplanes a helper can be called on: any axis-aligned orientation
\* (x direction and normal), at the global origin or away from it.
Origins == {<<0, 0, 0>>, <<3, -2, 5>>}
PlaneSet ==
    {[origin |-> o, xDir |-> xn[1], yDir |-> Cross(xn[2], xn[1]), zDir |-> xn[2]] :
        o \in Origins,
        xn \in {p \in Units \X Units : VDot(p[1], p[2]) = 0}}

\* Plane.toWorldCoords(v): the global coordinates of the local point v.
toWorldCoords(pl, v) ==
    VAdd(pl.origin,
         VAdd(VScale(v[1], pl.xDir), VAdd(VScale(v[2], pl.yDir), VScale(v[3], pl.zDir))))
\* The origin is not subtracted.
DirectionOffset(pl, v) == toWorldCoords(pl, v)
\* "plane.toWorldCoords(v) - plane.toWorldCoords((0,0,0))"
Direction(pl, v) == VSub(toWorldCoords(pl, v), toWorldCoords(pl, <<0, 0, 0>>))

\* A string argument, an exception, a call that has not been made.
Str(x) == [kind |-> "str", val |-> <<x>>]
Raise(exc) == [kind |-> "raised", exc |-> exc]
IsNum(x) == x.kind = "num"

(***************************************************************************)
(*                               bracket                                   *)
(***************************************************************************)
MaxSize  == 3    \* largest bracket width and height
MaxHoles == 3    \* largest holes_count

hole_hole_distance_factor == Whole(1)
hole_edge_distance_factor == Frac(1, 2)

\* Only the spaces between the holes.
distance_countNoEdges(hole_count) ==
    QMul(hole_hole_distance_factor, Whole(hole_count - 1))
\* "5 holes have 4 spaces between them, 1 edge space before and 1 after them."
distance_count(hole_count) ==
    QAdd(QMul(hole_hole_distance_factor, Whole(hole_count - 1)),
         QMul(hole_edge_distance_factor, Whole(2)))

\* The holes run along the width on an equal width and height too.
AlongWidthOrEqual(width, height) == width >= height
\* "Points to be arranged along the width edge."
AlongWidth(width, height) == width > height

hole_coordinates(width, height, hole_count) ==
    LET line_length == Max(width, height)
        count == distance_count(hole_count)
    IN  IF count[1] = 0 THEN Raise("ZeroDivisionError")
        ELSE
        LET distance_unit == QDiv(Whole(line_length), count)
            hole_hole_distance == QMul(hole_hole_distance_factor, distance_unit)
            hole_edge_distance == QMul(hole_edge_distance_factor, distance_unit)
            second_dimension_position == Frac(Min(width, height), 2)
            along(column) == QAdd(hole_edge_distance, QMul(Whole(column), hole_hole_distance))
        IN  [kind |-> "points",
             val |-> [i \in 1 .. hole_count |->
                        IF AlongWidth(width, height)
                        THEN <<along(i - 1), second_dimension_position>>
                        ELSE <<second_dimension_position, along(i - 1)>>]]

Optional1 == {None, Num(1)}
BracketArgs ==
    [plane : PlaneSet, thickness : {2}, width : 1 .. MaxSize, height : 1 .. MaxSize,
     holes_count : 0 .. MaxHoles, holes_diameter : {None, Num(0), Num(1)},
     holes_tag : {None, Str("holes")},
     edge_fillet : Optional1, edge_chamfer : Optional1,
     corner_fillet : Optional1, corner_chamfer : Optional1]

\* fillet_if / chamfer_if: the operation, when its condition holds.
OpIf(condition, op) == IF condition THEN <<op>> ELSE <<>>
\* The fillets and chamfers of bracket, in the order it applies them.
Treatments(a) ==
    OpIf(a.edge_fillet # None, "edge fillet")
    \o OpIf(a.edge_chamfer # None, "edge chamfer")
    \o OpIf(a.corner_fillet # None, "corner fillet")
    \o OpIf(a.corner_chamfer # None, "corner chamfer")
\* The hole cut before the fillets and chamfers.
BracketOpsCutFirst(a, marks, cut) == <<"union">> \o cut \o Treatments(a) \o marks
\* The modelling operations of one call, in program order.
BracketOps(a, marks, cut) == <<"union">> \o Treatments(a) \o marks \o cut

bracket(a) ==
    LET holes_tag == IF a.holes_tag # None THEN a.holes_tag.val[1]
                     ELSE "bracket_holes_random"
        dirs == [min_x |-> Direction(a.plane, <<-1, 0, 0>>),
                 max_x |-> Direction(a.plane, <<1, 0, 0>>),
                 min_y |-> Direction(a.plane, <<0, -1, 0>>),
                 max_y |-> Direction(a.plane, <<0, 1, 0>>),
                 min_z |-> Direction(a.plane, <<0, 0, -1>>),
                 max_z |-> Direction(a.plane, <<0, 0, 1>>)]
        coords == IF a.holes_count > 0
                  THEN hole_coordinates(a.width, a.height, a.holes_count)
                  ELSE [kind |-> "points", val |-> <<>>]
        marks == IF a.holes_count > 0 THEN <<"pushVertices", "tag", "first_solid">>
                 ELSE <<>>
        tags == IF a.holes_count > 0 THEN {holes_tag} ELSE {}
        cutting == a.holes_diameter # None /\ a.holes_diameter.val[1] > 0
    IN  IF coords.kind = "raised" THEN coords
        ELSE IF cutting /\ holes_tag \notin tags
        THEN Raise("ValueError")   \* .vertices(tag = ...) of a tag never set
        ELSE [kind |-> "Workplane",
              ops |-> BracketOps(a, marks, OpIf(cutting, "cutThruAll")),
              dirs |-> dirs,
              tags |-> tags,
              vertices |-> coords.val,
              holes |-> IF cutting THEN coords.val ELSE <<>>]

InitBracket ==
    /\ args \in BracketArgs /\ result = NotCalled
    /\ IdleWire /\ IdleTW /\ IdleSC /\ IdleTS /\ IdleCpl

OnlyCall == UNCHANGED <<wireVars, twVars, scVars, tsVars, cplVars>>

callBracket ==
    /\ result = NotCalled
    /\ result' = bracket(args)
    /\ UNCHANGED args /\ OnlyCall

NextBracket == callBracket

SpecBracket == InitBracket /\ [][NextBracket]_vars

(***************************************************************************)
(* Claims about bracket.                                                   *)
(***************************************************************************)
Done == result # NotCalled
Last(seq) == seq[Len(seq)]
Count(seq, x) == Cardinality({i \in DOMAIN seq : seq[i] = x})

\* C11: with holes_count = 1 bracket computes exactly one hole position, at
\* half the width and half the height, and raises no division by zero, for
\* every width and height (equal ones included).
C11_SingleHoleAtMidpoint ==
    (Done /\ args.holes_count = 1) =>
        /\ result.kind = "Workplane"
        /\ result.vertices = <<(<<Frac(args.width, 2), Frac(args.height, 2)>>)>>
C11_Witness ==
    /\ Done /\ args.holes_count = 1 /\ args.width = args.height
    /\ result.kind = "Workplane" /\ Len(result.vertices) = 1

\* C23: for holes_count = n >= 1 bracket places exactly n hole centres on
\* one line along the longer edge (length L = max(width, height); along the
\* height when both are equal), at L * (2k + 1) / (2n) for k = 0 .. n - 1,
\* and at min(width, height) / 2 across the shorter edge.
HoleAt(w, h, n, k) ==
    LET along  == Frac(Max(w, h) * (2 * k + 1), 2 * n)
        across == Frac(Min(w, h), 2)
    IN  IF w > h THEN <<along, across>> ELSE <<across, along>>
C23_HolesEvenlyAlongLongerEdge ==
    (Done /\ args.holes_count >= 1) =>
        /\ result.kind = "Workplane"
        /\ Len(result.vertices) = args.holes_count
        /\ \A k \in 0 .. args.holes_count - 1 :
             result.vertices[k + 1]
               = HoleAt(args.width, args.height, args.holes_count, k)
C23_Witness ==
    /\ Done /\ args.holes_count = 3 /\ args.width = 3 /\ args.height = 3
    /\ result.kind = "Workplane"
    /\ result.vertices[3] = <<Frac(3, 2), Frac(5, 2)>>

\* C16: whenever bracket cuts holes, the cut is the last operation of the
\* call: the base union and every requested fillet and chamfer precede it.
HolesAreCut ==
    /\ args.holes_count > 0
    /\ args.holes_diameter # None /\ args.holes_diameter.val[1] > 0
C16_HolesAreCutLast ==
    (Done /\ HolesAreCut) =>
        /\ result.kind = "Workplane"
        /\ Last(result.ops) = "cutThruAll"
        /\ Count(result.ops, "cutThruAll") = 1
        /\ result.ops[1] = "union"
        /\ (args.edge_fillet # None) <=> (Count(result.ops, "edge fillet") = 1)
        /\ (args.edge_chamfer # None) <=> (Count(result.ops, "edge chamfer") = 1)
        /\ (args.corner_fillet # None) <=> (Count(result.ops, "corner fillet") = 1)
        /\ (args.corner_chamfer # None) <=> (Count(result.ops, "corner chamfer") = 1)
C16_Witness ==
    /\ Done /\ HolesAreCut /\ result.kind = "Workplane"
    /\ args.edge_fillet # None /\ args.corner_chamfer # None
    /\ Last(result.ops) = "cutThruAll"

\* C15: the local axis directions derived as toWorldCoords(unit vector) -
\* toWorldCoords(origin) are the rotated unit vectors: they depend on the
\* orientation of the frame only, so every frame with the same basis and
\* another origin gives the same directions.
SameBasis(p, q) == p.xDir = q.xDir /\ p.yDir = q.yDir /\ p.zDir = q.zDir
C15_DirectionsIgnoreOrigin ==
    (Done /\ result.kind = "Workplane") =>
        /\ result.dirs.max_x = args.plane.xDir
        /\ result.dirs.min_x = VScale(-1, args.plane.xDir)
        /\ result.dirs.max_y = args.plane.yDir
        /\ result.dirs.min_y = VScale(-1, args.plane.yDir)
        /\ result.dirs.max_z = args.plane.zDir
        /\ result.dirs.min_z = VScale(-1, args.plane.zDir)
        /\ \A q \in PlaneSet : SameBasis(q, args.plane) =>
             /\ Direction(q, <<1, 0, 0>>) = result.dirs.max_x
             /\ Direction(q, <<0, 1, 0>>) = result.dirs.max_y
             /\ Direction(q, <<0, 0, 1>>) = result.dirs.max_z
C15_Witness ==
    /\ Done /\ result.kind = "Workplane"
    /\ args.plane.origin # <<0, 0, 0>> /\ args.plane.zDir = <<1, 0, 0>>
    /\ result.dirs.max_z = <<1, 0, 0>>

(***************************************************************************)
(*                                 bolt                                    *)
(*                                                                         *)
(* bolt is called on a fresh workplane. It builds the bolt from extrusions *)
(* along the workplane normal; each is recorded with the global points     *)
(* where it starts and ends. Points have fractions as coordinates. The     *)
(* faces the code selects with DirectionMinMaxSelector are the end faces   *)
(* farthest along the given direction.                                     *)
(***************************************************************************)
MaxHead == 4    \* largest head_length

QPoint(v) == <<Whole(v[1]), Whole(v[2]), Whole(v[3])>>
\* The point at distance s from p in direction dir.
Along(p, s, dir) ==
    <<QAdd(p[1], QMul(s, Whole(dir[1]))),
      QAdd(p[2], QMul(s, Whole(dir[2]))),
      QAdd(p[3], QMul(s, Whole(dir[3])))>>
QDot(p, dir) ==
    QAdd(QMul(p[1], Whole(dir[1])),
         QAdd(QMul(p[2], Whole(dir[2])), QMul(p[3], Whole(dir[3]))))

\* An angle whose half has a rational cosine and sine (about 106 degrees).
HeadAngle == [kind |-> "angle", half_cos |-> Frac(3, 5), half_sin |-> Frac(4, 5)]

BoltArgs ==
    [plane : PlaneSet, bolt_size : {6}, head_size : {14},
     nut_size : {None, Num(9)}, nut_length : {0, 2},
     clamp_length : {3, 4}, head_length : 2 .. MaxHead,
     protruding_length : {0, 1},
     head : {[shape |-> "cylindrical", angle |-> None],
             [shape |-> "hexagonal", angle |-> None],
             [shape |-> "conical", angle |-> HeadAngle]}]

\* .extrude(s) on the workplane wp.
Extrusion(name, wp, s) ==
    [name |-> name, from |-> wp.origin, to |-> Along(wp.origin, s, wp.normal)]
\* .extrude(s, taper = t): the kernel measures s along the tapered surface.
TaperExtrusion(name, wp, s, angle) ==
    Extrusion(name, wp, QMul(s, angle.half_cos))

\* .faces(cqs.DirectionMinMaxSelector(dir)): the face farthest along dir.
Ends(parts) == {parts[i].from : i \in DOMAIN parts} \cup {parts[i].to : i \in DOMAIN parts}
FaceAt(parts, dir) ==
    [center |-> CHOOSE p \in Ends(parts) :
                   \A q \in Ends(parts) : ~QLess(QDot(p, dir), QDot(q, dir)),
     normal |-> dir]
\* .workplane(invert = ..., offset = ...) on a selected face.
WorkplaneOn(face, invert, offset) ==
    LET normal == IF invert THEN VScale(-1, face.normal) ELSE face.normal
    IN  [origin |-> Along(face.center, offset, normal), normal |-> normal]

bolthead(wp, size, length, head, bolt_size) ==
    IF head.shape = "conical"
    THEN LET cot == QDiv(head.angle.half_cos, head.angle.half_sin)
             bolthead_cone_height == QMul(cot, Frac(size, 2))
             boltsize_cone_height == QMul(cot, Frac(bolt_size, 2))
             conical_length == QAdd(bolthead_cone_height, QNeg(boltsize_cone_height))
             conical_length_for_extrude == QDiv(conical_length, head.angle.half_cos)
             cylindrical_length == QAdd(Whole(length), QNeg(conical_length))
             lower == [origin |-> Along(wp.origin, cylindrical_length, wp.normal),
                       normal |-> wp.normal]
         IN  IF QLess(Whole(0), cylindrical_length)
             THEN <<Extrusion("head", wp, cylindrical_length),
                    TaperExtrusion("head", lower, conical_length_for_extrude, head.angle)>>
             ELSE <<TaperExtrusion("head", wp, conical_length_for_extrude, head.angle)>>
    ELSE <<Extrusion("head", wp, Whole(length))>>

\* ".extrude(clamp_length / 2, both = True)"
Clamp(pl, clamp_length) ==
    LET wp == [origin |-> QPoint(pl.origin), normal |-> pl.zDir]
        half == Frac(clamp_length, 2)
    IN  <<[name |-> "clamp",
           from |-> Along(wp.origin, QNeg(half), wp.normal),
           to |-> Along(wp.origin, half, wp.normal)]>>

bolt(a) ==
    LET dir_min_z == Direction(a.plane, <<0, 0, -1>>)
        dir_max_z == Direction(a.plane, <<0, 0, 1>>)
        clamp == Clamp(a.plane, a.clamp_length)
        top == WorkplaneOn(FaceAt(clamp, dir_max_z), TRUE, Whole(-a.head_length))
        headed == clamp \o bolthead(top, a.head_size, a.head_length, a.head, a.bolt_size)
        bottom == WorkplaneOn(FaceAt(headed, dir_min_z), FALSE, Whole(0))
        nutted == IF a.nut_size # None /\ a.nut_length # 0
                  THEN headed \o <<Extrusion("nut", bottom, Whole(a.nut_length))>>
                  ELSE headed
        below == [origin |-> FaceAt(nutted, dir_min_z).center, normal |-> bottom.normal]
        whole == IF a.protruding_length > 0
                 THEN nutted \o <<Extrusion("end", below, Whole(a.protruding_length))>>
                 ELSE nutted
    IN  [kind |-> "Workplane", parts |-> whole]

InitBolt ==
    /\ args \in BoltArgs /\ result = NotCalled
    /\ IdleWire /\ IdleTW /\ IdleSC /\ IdleTS /\ IdleCpl

callBolt ==
    /\ result = NotCalled
    /\ result' = bolt(args)
    /\ UNCHANGED args /\ OnlyCall

NextBolt == callBolt

SpecBolt == InitBolt /\ [][NextBolt]_vars

(***************************************************************************)
(* Claims about bolt.                                                      *)
(***************************************************************************)
\* The coordinate of a global point along the local Z axis of the workplane.
LocalZ(pl, p) == QAdd(QDot(p, pl.zDir), QNeg(QDot(QPoint(pl.origin), pl.zDir)))
PartsNamed(name) == {i \in DOMAIN result.parts : result.parts[i].name = name}
\* The local Z coordinates of the end faces of the parts of that name.
ZEnds(name) ==
    {LocalZ(args.plane, result.parts[i].from) : i \in PartsNamed(name)}
    \cup {LocalZ(args.plane, result.parts[i].to) : i \in PartsNamed(name)}
\* The parts of that name reach from lo to hi and not beyond.
Spans(name, lo, hi) ==
    /\ lo \in ZEnds(name) /\ hi \in ZEnds(name)
    /\ \A z \in ZEnds(name) : ~QLess(z, lo) /\ ~QLess(hi, z)
HasNut == args.nut_size # None /\ args.nut_length # 0

\* C14: along the local Z axis of the workplane the clamp section spans
\* [-c/2, c/2], the head [c/2, c/2 + h] and the nut [-c/2 - n, -c/2], for
\* every orientation of the workplane.
C14_ClampStraddlesWorkplane ==
    Done =>
        LET half == Frac(args.clamp_length, 2) IN
        /\ Spans("clamp", QNeg(half), half)
        /\ Spans("head", half, QAdd(half, Whole(args.head_length)))
        /\ HasNut => Spans("nut", QAdd(QNeg(half), Whole(-args.nut_length)), QNeg(half))

\* The length of a part along the bolt axis.
AxialLength(part) ==
    LET d == QAdd(LocalZ(args.plane, part.to), QNeg(LocalZ(args.plane, part.from)))
    IN  IF QLess(d, Whole(0)) THEN QNeg(d) ELSE d
HeadLengths == {AxialLength(result.parts[i]) : i \in PartsNamed("head")}
\* What the head occupies along the bolt axis, from its lowest to its
\* highest end face.
HeadExtent ==
    LET hi == CHOOSE z \in ZEnds("head") : \A y \in ZEnds("head") : ~QLess(z, y)
        lo == CHOOSE z \in ZEnds("head") : \A y \in ZEnds("head") : ~QLess(y, z)
    IN  QAdd(hi, QNeg(lo))

\* C24: a conical head of diameter D on a bolt of diameter d, with tip angle
\* a and requested head length L, occupies exactly L along the bolt axis: a
\* frustum of axial length c = (D - d) / 2 * tan(90 - a / 2) and, before it, a
\* cylinder of length L - c, for every L > 0, also when L is smaller than c.
C24_ConicalHeadOccupiesLength ==
    (Done /\ args.head.shape = "conical") =>
        LET cot == QDiv(args.head.angle.half_cos, args.head.angle.half_sin)
            c == QMul(Frac(args.head_size - args.bolt_size, 2), cot)
            L == Whole(args.head_length)
        IN  /\ HeadExtent = L
            /\ QLess(c, L) => HeadLengths = {QAdd(L, QNeg(c)), c}

(***************************************************************************)
(*                               uProfile                                  *)
(*                                                                         *)
(* The outline is the sequence of drawing calls made on the workplane,     *)
(* each with the values it is given.                                       *)
(***************************************************************************)
MaxStraight == 4    \* largest straight_h
MaxWall     == 3    \* largest wall_thickness

UProfileArgs ==
    [w : 8 .. 12, straight_h : 0 .. MaxStraight, rounded_h : {0, 2},
     wall_thickness : 1 .. MaxWall]

Draw(op, values) == [op |-> op, values |-> values]
\* An arc, or a straight line when the sagitta is zero.
sagittaArcOrLine(endPoint, sag) ==
    IF sag[1] = 0 THEN Draw("lineTo", endPoint)
    ELSE Draw("sagittaArc", endPoint \o <<sag>>)

\* "To create a non-zero but negligible surface"
nothing == Frac(1, 100)

\* Corrected only when strictly lower.
NeedsCorrectionStrict(straight_h, wall_thickness) == straight_h < wall_thickness
\* "if straight_h <= wall_thickness"
NeedsCorrection(straight_h, wall_thickness) == straight_h <= wall_thickness

uProfile(a) ==
    LET wall_thickness == Whole(a.wall_thickness)
        w == Whole(a.w)
        rounded_h == Whole(a.rounded_h)
        straight_h == IF NeedsCorrection(a.straight_h, a.wall_thickness)
                      THEN QAdd(wall_thickness, nothing)
                      ELSE Whole(a.straight_h)
        half_w == QMul(w, Frac(1, 2))
        half_wall == QMul(wall_thickness, Frac(1, 2))
        down == QAdd(QNeg(straight_h), wall_thickness)
        up == QAdd(straight_h, QNeg(wall_thickness))
    IN  [kind |-> "Workplane",
         outline |->
           << Draw("move", <<QAdd(QNeg(half_w), half_wall), QNeg(half_wall)>>),
              Draw("vLine", <<down>>),
              sagittaArcOrLine(<<QAdd(half_w, QNeg(half_wall)),
                                 QAdd(QNeg(straight_h), half_wall)>>,
                               QNeg(rounded_h)),
              Draw("vLine", <<up>>),
              Draw("hLine", <<QNeg(nothing)>>),
              Draw("vLine", <<down>>),
              sagittaArcOrLine(<<QAdd(QAdd(QNeg(half_w), half_wall), nothing),
                                 QAdd(QAdd(QNeg(straight_h), half_wall), QNeg(nothing))>>,
                               rounded_h),
              Draw("vLine", <<up>>),
              Draw("close", <<>>),
              Draw("offset2D", <<half_wall>>) >>]

InitUProfile ==
    /\ args \in UProfileArgs /\ result = NotCalled
    /\ IdleWire /\ IdleTW /\ IdleSC /\ IdleTS /\ IdleCpl

callUProfile ==
    /\ result = NotCalled
    /\ result' = uProfile(args)
    /\ UNCHANGED args /\ OnlyCall

NextUProfile == callUProfile

SpecUProfile == InitUProfile /\ [][NextUProfile]_vars

\* C12: uProfile with straight_h below wall_thickness draws the outline it
\* draws with straight_h equal to wall_thickness, the other arguments equal.
C12_StraightHeightIsClamped ==
    (Done /\ args.straight_h < args.wall_thickness) =>
        result = uProfile([args EXCEPT !.straight_h = args.wall_thickness])
C12_Witness ==
    /\ Done /\ args.straight_h = 0 /\ args.wall_thickness = 2 /\ args.rounded_h = 2
    /\ result.outline[2] = Draw("vLine", <<QNeg(nothing)>>)

(***************************************************************************)
(*                            multistep_cone                               *)
(***************************************************************************)
MaxSteps == 4    \* most steps in one call

\* A step is (distance to the previous cross-section, radius).
StepSet == {0, 10} \X {2, 4}
StepLists == UNION {[1 .. n -> StepSet] : n \in 1 .. MaxSteps}
\* A circle wire: the height of its workplane above the one of the call, and
\* its radius. A wire left pending by the caller has its own mark.
Circle(z, r) == [z |-> z, r |-> r]
StaleWire == [z |-> 0, r |-> 1]
ConeArgs == [steps : StepLists, pendingWires : {<<>>, <<StaleWire>>}]

\* Nothing is drawn again after a loft.
NoRedraw(wire) == <<>>
\* "Lofting removes all pending wires. Recreate the last one for the next
\* step's lofting."
Redraw(wire) == <<wire>>

\* The loop over the steps: z is the height of the current workplane,
\* pending is ctx.pendingWires, lofts the wire lists lofted so far.
RECURSIVE ConeLoop(_, _, _, _)
ConeLoop(steps, z, pending, lofts) ==
    IF steps = <<>> THEN [lofts |-> lofts, pending |-> pending]
    ELSE LET step == Head(steps)
             height == z + step[1]
             wire == Circle(height, step[2])
             drawn == Append(pending, wire)
         IN  IF Len(drawn) = 2
             THEN ConeLoop(Tail(steps), height, Redraw(wire), Append(lofts, drawn))
             ELSE ConeLoop(Tail(steps), height, drawn, lofts)

multistep_cone(a) ==
    LET done == ConeLoop(a.steps, 0, a.pendingWires, <<>>)
    IN  [kind |-> "Workplane", lofts |-> done.lofts, pendingWires |-> done.pending]

InitCone ==
    /\ args \in ConeArgs /\ result = NotCalled
    /\ IdleWire /\ IdleTW /\ IdleSC /\ IdleTS /\ IdleCpl

callMultistepCone ==
    /\ result = NotCalled
    /\ result' = multistep_cone(args)
    /\ UNCHANGED args /\ OnlyCall

NextCone == callMultistepCone

SpecCone == InitCone /\ [][NextCone]_vars

\* The height of cross-section k: the sum of the first k distances.
RECURSIVE HeightOf(_, _)
HeightOf(steps, k) == IF k = 0 THEN 0 ELSE HeightOf(steps, k - 1) + steps[k][1]
Section(steps, k) == Circle(HeightOf(steps, k), steps[k][2])

\* C13: on a workplane without pending wires, n >= 2 steps give exactly
\* n - 1 lofts, the k-th joining cross-sections k and k + 1 only, each
\* cross-section at the sum of the distances up to it.
C13_PairwiseLofts ==
    (Done /\ args.pendingWires = <<>> /\ Len(args.steps) >= 2) =>
        /\ Len(result.lofts) = Len(args.steps) - 1
        /\ \A k \in DOMAIN result.lofts :
             result.lofts[k] = <<Section(args.steps, k), Section(args.steps, k + 1)>>
C13_Witness ==
    /\ Done /\ args.pendingWires = <<>>
    /\ args.steps = <<(<<0, 2>>), (<<10, 2>>), (<<10, 4>>), (<<10, 4>>)>>
    /\ Len(result.lofts) = 3
    /\ result.lofts[3] = <<Circle(20, 4), Circle(30, 4)>>

(***************************************************************************)
(*                    eachpointAdaptive / cutEachAdaptive                  *)
(*                                                                         *)
(* A dict of keyword arguments is a function from argument names to        *)
(* values; a list is a sequence, indexed from 0 in the code.               *)
(***************************************************************************)
MaxObjects == 3    \* most objects on the stack

Dict(d) == [kind |-> "dict", val |-> d]
KwArgs == {[size |-> 1], [size |-> 5]}
ListsOf(S, n) == UNION {[1 .. k -> S] : k \in 0 .. n}
ExtraArgs ==
    {None} \cup {Dict(d) : d \in KwArgs}
    \cup {List(l) : l \in ListsOf({Dict(d) : d \in KwArgs}, MaxObjects)}
\* The stack: vertices, named by their position.
Stacks == {[i \in 1 .. n |-> i] : n \in 0 .. MaxObjects}
EachArgs == [objects : Stacks, callback_extra_args : ExtraArgs, useLocalCoords : BOOLEAN]

\* "callback_extra_args[i]" for the 0-based index i: a value or an exception.
\* The keys of a dict of keyword arguments are strings, never i.
Subscript(x, i) ==
    IF x.kind = "list"
    THEN IF i + 1 \in DOMAIN x.val THEN x.val[i + 1] ELSE Raise("IndexError")
    ELSE IF x.kind = "dict" THEN Raise("KeyError")
    ELSE Raise("TypeError")

\* The points made from the stack; the workplane origin for an empty stack.
Points(objects) == IF objects = <<>> THEN <<"origin">> ELSE objects

\* The loop over the points, from the 0-based index i on.
RECURSIVE CallEach(_, _, _, _, _)
CallEach(pnts, extra, useLocalCoords, i, calls) ==
    IF i = Len(pnts) THEN [kind |-> "Workplane", calls |-> calls]
    ELSE LET extra_args == Subscript(extra, i) IN
         IF extra_args.kind = "raised" THEN extra_args
         ELSE CallEach(pnts, extra, useLocalCoords, i + 1,
                       Append(calls, [point |-> pnts[i + 1],
                                      local |-> useLocalCoords,
                                      kwargs |-> extra_args.val]))

eachpointAdaptive(a) ==
    LET pnts == Points(a.objects)
        callback_extra_args ==
            IF a.callback_extra_args = None
            THEN List([i \in 1 .. Len(pnts) |-> Dict(<<>>)])
            ELSE a.callback_extra_args
    IN  CallEach(pnts, callback_extra_args, a.useLocalCoords, 0, <<>>)

InitEach ==
    /\ args \in EachArgs /\ result = NotCalled
    /\ IdleWire /\ IdleTW /\ IdleSC /\ IdleTS /\ IdleCpl

callEachpointAdaptive ==
    /\ result = NotCalled
    /\ result' = eachpointAdaptive(args)
    /\ UNCHANGED args /\ OnlyCall

NextEach == callEachpointAdaptive

SpecEach == InitEach /\ [][NextEach]_vars

\* C17: given a single dict as callback_extra_args, eachpointAdaptive calls
\* the callback once for each object on the stack, each time with the
\* keyword arguments of that dict.
C17_SingleDictForEveryCall ==
    (Done /\ args.callback_extra_args.kind = "dict") =>
        /\ result.kind = "Workplane"
        /\ Len(result.calls) = Len(Points(args.objects))
        /\ \A i \in DOMAIN result.calls :
             /\ result.calls[i].point = Points(args.objects)[i]
             /\ result.calls[i].kwargs = args.callback_extra_args.val

(***************************************************************************)
(*                            cbore_csk_hole                               *)
(***************************************************************************)
\* An angle given by the tangent of its half: 90 degrees, about 74 degrees.
CskAngles == {[half_tan |-> Whole(1)], [half_tan |-> Frac(3, 4)]}
HoleArgs ==
    [largestDimension : {24, 30}, objects : Stacks \ {<<>>},
     diameter : {4}, cboreDiameter : {8}, cboreDepth : {0, 4},
     cskDiameter : {6, 7}, cskAngle : CskAngles,
     depth : {None, Num(0), Num(10)}, clean : BOOLEAN]

\* Zero counts as no depth given.
NoDepthOrZero(depth) == depth = None \/ depth.val[1] = 0
\* "if depth is None"
NoDepth(depth) == depth = None

\* cq.Solid.makeCylinder(radius, height, ...): the kernel makes no solid of
\* height zero; it raises or returns a shape without volume.
makeCylinder(radius, height) ==
    IF height[1] = 0 THEN {Raise("kernel error"), [radius |-> radius, height |-> Whole(0)]}
    ELSE {[radius |-> radius, height |-> height]}

\* The outcomes of one call.
cbore_csk_hole(a) ==
    LET depth == IF NoDepth(a.depth) THEN Whole(a.largestDimension)
                 ELSE Whole(a.depth.val[1])
        csk_radius == Frac(a.cskDiameter, 2)
        csk_height == QDiv(csk_radius, a.cskAngle.half_tan)
    IN  {IF hole = Raise("kernel error") \/ cbore = Raise("kernel error")
         THEN Raise("kernel error")
         ELSE [kind |-> "Workplane",
               hole |-> hole,
               cbore |-> cbore,
               csk |-> [radius |-> csk_radius, height |-> csk_height,
                        below |-> Whole(a.cboreDepth)],
               cuts |-> Len(a.objects),
               clean |-> a.clean] :
           hole \in makeCylinder(Frac(a.diameter, 2), depth),
           cbore \in makeCylinder(Frac(a.cboreDiameter, 2), Whole(a.cboreDepth))}

InitHole ==
    /\ args \in HoleArgs /\ result = NotCalled
    /\ IdleWire /\ IdleTW /\ IdleSC /\ IdleTS /\ IdleCpl

callCboreCskHole ==
    /\ result = NotCalled
    /\ result' \in cbore_csk_hole(args)
    /\ UNCHANGED args /\ OnlyCall

NextHole == callCboreCskHole

SpecHole == InitHole /\ [][NextHole]_vars

\* C18: with depth = 0, as with depth = None, the hole for the bolt shaft
\* is as deep as the largest dimension of the part.
C18_ZeroDepthDrillsThrough ==
    (Done /\ NoDepthOrZero(args.depth) /\ args.cboreDepth # 0) =>
        /\ result.kind = "Workplane"
        /\ result.hole.height = Whole(args.largestDimension)

(***************************************************************************)
(*                                tag_if                                   *)
(***************************************************************************)
\* What is on the stack at the call: vertices, or the solid itself; whether
\* the chain holds a solid; the tags set so far.
VertexStacks == {[i \in 1 .. n |-> "vertex"] : n \in 0 .. MaxObjects}
TagArgs ==
    {a \in [condition : BOOLEAN, name : {"holes", "top"},
            objects : VertexStacks \cup {<<"solid">>},
            hasSolid : BOOLEAN, tags : {{}, {"top"}}] :
        a.objects = <<"solid">> => a.hasSolid}

\* self.newObject([self.findSolid()])
ContextSolid(a) ==
    IF a.hasSolid
    THEN [kind |-> "Workplane", objects |-> <<"solid">>, tags |-> a.tags]
    ELSE Raise("ValueError")   \* no solid on the stack or in the chain

tag_if(a) ==
    IF a.condition
    THEN [kind |-> "Workplane", objects |-> a.objects, tags |-> a.tags \cup {a.name}]
    ELSE ContextSolid(a)

InitTag ==
    /\ args \in TagArgs /\ result = NotCalled
    /\ IdleWire /\ IdleTW /\ IdleSC /\ IdleTS /\ IdleCpl

callTagIf ==
    /\ result = NotCalled
    /\ result' = tag_if(args)
    /\ UNCHANGED args /\ OnlyCall

NextTag == callTagIf

SpecTag == InitTag /\ [][NextTag]_vars

\* C19: tag_if with a false condition creates no tag and returns a stack
\* holding the objects of the stack it was called on.
C19_FalseConditionDoesNothing ==
    (Done /\ ~args.condition) =>
        /\ result.kind = "Workplane"
        /\ result.tags = args.tags
        /\ result.objects = args.objects

(***************************************************************************)
(*                           optional_chamfer                              *)
(***************************************************************************)
ChamferLengths == {0, 3, 6}
ChamferArgs ==
    [length : {None, List(<<6, 3>>), Tuple(<<6>>)}
              \cup {Num(n) : n \in ChamferLengths}
              \cup {Tuple(<<m, n>>) : m \in ChamferLengths, n \in ChamferLengths},
     edges : Stacks \ {<<>>}, solid : {"box", "plate"}]

\* A workplane holding a solid, with the chamfers applied to its edges.
Holding(solid, edges, lengths) ==
    [kind |-> "Workplane", solid |-> solid,
     chamfered |-> IF lengths = <<>> THEN <<>> ELSE edges, lengths |-> lengths]

optional_chamfer(a) ==
    IF IsNum(a.length)
    THEN IF a.length.val[1] = 0
         THEN Holding(a.solid, a.edges, <<>>)
         ELSE Holding(a.solid, a.edges, <<a.length.val[1]>>)
    ELSE IF a.length.kind = "tuple"
    THEN IF Len(a.length.val) < 1 THEN Raise("IndexError")
         ELSE IF a.length.val[1] = 0 THEN Holding(a.solid, a.edges, <<>>)
         ELSE IF Len(a.length.val) < 2 THEN Raise("IndexError")
         ELSE IF a.length.val[2] = 0 THEN Holding(a.solid, a.edges, <<>>)
         ELSE Holding(a.solid, a.edges, <<a.length.val[1], a.length.val[2]>>)
    ELSE None   \* no branch taken: the function returns nothing

InitChamfer ==
    /\ args \in ChamferArgs /\ result = NotCalled
    /\ IdleWire /\ IdleTW /\ IdleSC /\ IdleTS /\ IdleCpl

callOptionalChamfer ==
    /\ result = NotCalled
    /\ result' = optional_chamfer(args)
    /\ UNCHANGED args /\ OnlyCall

NextChamfer == callOptionalChamfer

SpecChamfer == InitChamfer /\ [][NextChamfer]_vars

\* C20: optional_chamfer chamfers exactly when the length is a non-zero
\* number or a 2-tuple of non-zero numbers; for every other length it
\* returns a workplane holding the unmodified solid.
NoLengthIsZero(length) ==
    \/ IsNum(length) /\ length.val[1] # 0
    \/ length.kind = "tuple" /\ Len(length.val) = 2
       /\ length.val[1] # 0 /\ length.val[2] # 0
C20_ChamferOrUnmodifiedSolid ==
    Done =>
        /\ result.kind = "Workplane"
        /\ result.solid = args.solid
        /\ IF NoLengthIsZero(args.length)
           THEN result.lengths = args.length.val /\ result.chamfered = args.edges
           ELSE result.lengths = <<>> /\ result.chamfered = <<>>

\* ---------------------------------------------------------------------
\* angle_sector: a circle sector wire from two angles, one per stack point
\* (utilities.py 1521-1548).
\*
\* Angles are degrees.  The angles tried are multiples of 30, so that the
\* halving at line 1534 is exact and every point of the construction lies
\* on the 15 degree raster of the circle.  cos(radians(x)) * radius,
\* sin(radians(x)) * radius is the point of the circle in direction
\* x modulo 360, which is how OnCircle represents it.
MaxAngle == 12

SectorAngles == {30 * k : k \in -MaxAngle .. MaxAngle}

SectorRadii == {5}

SectorCentres == {<<0, 0>>, <<0, 6>>}

SectorArgs ==
    [radius : SectorRadii, start_angle : SectorAngles,
     stop_angle : SectorAngles, forConstruction : BOOLEAN,
     stack : ListsOf(SectorCentres, 2)]

\* The alternative reading of the two angles: from start_angle
\* counter-clockwise to stop_angle.
center_angleCounterClockwise(start_angle, stop_angle) ==
    start_angle + ((stop_angle - start_angle) % 360) \div 2

\* Line 1534.
center_angle(start_angle, stop_angle) == (start_angle + stop_angle) \div 2

\* Lines 1537-1539: cq.Vector(cos(radians(a)) * radius, sin(radians(a)) * radius, 0).
\* Two angles a full turn apart give the same direction, but the floating
\* point coordinates computed from them agree only up to rounding: the
\* point keeps the angle it was computed from.
OnCircle(radius, angle) == [radius |-> radius, dir |-> angle % 360, angle |-> angle]

\* The directions met when going counter-clockwise from direction s to e.
CounterClockwise(s, e) == {(s + 15 * k) % 360 : k \in 0 .. ((e - s) % 360) \div 15}

FullCircle == CounterClockwise(0, 345)

\* cq.Edge.makeLine(origin, p), line 1542 and 1544.
makeLine(p) == [kind |-> "line", from |-> "origin", to |-> p]

ArcOver(v1, v2, v3, covers) ==
    [kind |-> "arc", from |-> v1, over |-> v2, to |-> v3, covers |-> covers]

\* cq.Edge.makeThreePointArc(v1, v2, v3): the arc of the circle through the
\* three points that runs from v1 over v2 to v3.  No circle is defined by
\* three points of which two are equal: the construction fails.  For points
\* that coincide only up to rounding the geometry kernel either fails or
\* builds the arc between the nearly equal end points: every outcome is
\* possible.
makeThreePointArc(v1, v2, v3) ==
    IF v1 = v2 \/ v2 = v3 \/ v1 = v3
    THEN {Raise("StdFail_NotDone")}
    ELSE IF v1.dir # v3.dir
    THEN {ArcOver(v1, v2, v3,
              IF v2.dir \in CounterClockwise(v1.dir, v3.dir)
              THEN CounterClockwise(v1.dir, v3.dir)
              ELSE CounterClockwise(v3.dir, v1.dir))}
    ELSE {Raise("StdFail_NotDone"), ArcOver(v1, v2, v3, FullCircle)}
         \cup (IF v2.dir = v1.dir THEN {ArcOver(v1, v2, v3, {v1.dir})} ELSE {})

\* Lines 1534-1548: the outcomes of the call.  The wire is the list of edges
\* in the order they are assembled; eachpoint moves one copy of it to every
\* point of the stack.
angle_sector(a) ==
    LET mid       == center_angle(a.start_angle, a.stop_angle)
        arc_start == OnCircle(a.radius, a.start_angle)
        arc_mid   == OnCircle(a.radius, mid)
        arc_end   == OnCircle(a.radius, a.stop_angle)
    IN  {IF arc.kind = "raised" THEN arc
         ELSE [kind |-> "Workplane",
               wires |-> [i \in 1 .. Len(a.stack) |->
                   [at |-> a.stack[i],
                    forConstruction |-> a.forConstruction,
                    edges |-> <<makeLine(arc_start), arc, makeLine(arc_end)>>]]]
         : arc \in makeThreePointArc(arc_start, arc_mid, arc_end)}

InitSector ==
    /\ args \in SectorArgs /\ result = NotCalled
    /\ IdleWire /\ IdleTW /\ IdleSC /\ IdleTS /\ IdleCpl

callAngleSector ==
    /\ result = NotCalled
    /\ result' \in angle_sector(args)
    /\ UNCHANGED args /\ OnlyCall

NextSector == callAngleSector

SpecSector == InitSector /\ [][NextSector]_vars

\* The region a sector wire encloses: its centre, its two radii and the
\* part of the circle its arc covers.
SectorRegion(wire) ==
    [at |-> wire.at,
     radii |-> {e.to.dir : e \in {wire.edges[i] : i \in {1, 3}}},
     covers |-> wire.edges[2].covers]
SectorsOf(r) ==
    [kind |-> r.kind,
     sectors |-> IF r.kind = "raised" THEN <<>>
                 ELSE [i \in 1 .. Len(r.wires) |-> SectorRegion(r.wires[i])]]
Swapped(a) ==
    [a EXCEPT !.start_angle = a.stop_angle, !.stop_angle = a.start_angle]

\* C21: angle_sector(radius, a, b) and angle_sector(radius, b, a) build the
\* same sector for every pair of angles; the arc passes through the mean
\* angle (a + b) / 2, so start_angle = 270, stop_angle = 90 gives the half
\* circle through 180 and not the one through 0.
C21_StartAndStopAreInterchangeable ==
    Done =>
        /\ SectorsOf(result) \in {SectorsOf(r) : r \in angle_sector(Swapped(args))}
        /\ result.kind = "Workplane" =>
              \A i \in 1 .. Len(result.wires) :
                  LET s == SectorRegion(result.wires[i])
                  IN  /\ ((args.start_angle + args.stop_angle) \div 2) % 360 \in s.covers
                      /\ (args.start_angle = 270 /\ args.stop_angle = 90) =>
                            /\ s.covers = {90 + 15 * k : k \in 0 .. 12}
                            /\ 0 \notin s.covers
C21_Witness ==
    /\ Done /\ result.kind = "Workplane" /\ Len(result.wires) = 2
    /\ args.start_angle = 270 /\ args.stop_angle = 90
    /\ 180 \in result.wires[1].edges[2].covers

(***************************************************************************)
(*                          shaft, shaft_outline                           *)
(***************************************************************************)
MaxFlatten == 4    \* largest flatten

ShaftArgs ==
    [height : {20, 25}, diameter : {8, 10}, flatten : 0 .. MaxFlatten,
     top_diameter : {None, Num(4), Num(6), Num(8), Num(10)}]

\* shaft_outline(diameter, flatten): a circle for flatten == 0, else the
\* outline of a circle with a flat cut at radius - flatten.
shaft_outline(diameter, flatten) ==
    LET radius == QDiv(diameter, Whole(2))
        flatten_start_x == QAdd(radius, QNeg(flatten))
        \* radius ** 2 - (radius - flatten) ** 2, the argument of sqrt
        under_root == QAdd(QMul(radius, radius),
                           QNeg(QMul(flatten_start_x, flatten_start_x)))
    IN  IF flatten = Whole(0)
        THEN [kind |-> "outline", shape |-> "circle", radius |-> radius,
              flatten |-> flatten]
        ELSE IF QLess(under_root, Whole(0))
        THEN Raise("ValueError")    \* math domain error
        ELSE [kind |-> "outline", shape |-> "D", radius |-> radius,
              flatten |-> flatten]

\* Only a negative top_flatten is replaced.
TooFlat(top_flatten) == QLess(top_flatten, Whole(0))

shaft(a) ==
    LET diameter == Whole(a.diameter)
        flatten == Whole(a.flatten)
        tapered == a.top_diameter # None
        top_diameter == IF tapered THEN Whole(a.top_diameter.val[1]) ELSE Whole(0)
        top_height == QDiv(QAdd(diameter, QNeg(top_diameter)), Whole(2))
        height == IF tapered THEN QAdd(Whole(a.height), QNeg(top_height))
                  ELSE Whole(a.height)
        difference == QAdd(flatten, QNeg(QAdd(diameter, QNeg(top_diameter))))
        top_flatten == IF TooFlat(difference) THEN Frac(1, 1000) ELSE difference
        lower == shaft_outline(diameter, flatten)
        upper == shaft_outline(top_diameter, top_flatten)
    IN  IF lower.kind = "raised" THEN lower
        ELSE IF ~tapered
        THEN [kind |-> "Workplane", outline |-> lower, extrude |-> height,
              loft |-> <<>>]
        ELSE IF upper.kind = "raised" THEN upper
        ELSE [kind |-> "Workplane", outline |-> lower, extrude |-> height,
              loft |-> <<[offset |-> top_height, outline |-> upper]>>]

InitShaft ==
    /\ args \in ShaftArgs /\ result = NotCalled
    /\ IdleWire /\ IdleTW /\ IdleSC /\ IdleTS /\ IdleCpl

callShaft ==
    /\ result = NotCalled
    /\ result' = shaft(args)
    /\ UNCHANGED args /\ OnlyCall

NextShaft == callShaft

SpecShaft == InitShaft /\ [][NextShaft]_vars

\* C25: whenever shaft is given a top_diameter, the flatten value passed to
\* shaft_outline for the top section is non-zero, so the upper outline of the
\* loft is never a circle, for every diameter, flatten and top_diameter.
C25_UpperOutlineNeverCircular ==
    (Done /\ args.top_diameter # None) =>
        /\ result.kind = "Workplane"
        /\ Len(result.loft) = 1
        /\ result.loft[1].outline.flatten # Whole(0)
        /\ result.loft[1].outline.shape # "circle"

(***************************************************************************)
(*                    prepare-beans.py: the contour loop                   *)
(*                                                                         *)
(* args is the input of one run: the resolution, the size of the image     *)
(* and the number of contours found in it; the bounding box of a contour   *)
(* is any box inside the image.  result is the run: the contours visited,  *)
(* the bounding box of the last one, img_num and the shape (rows, columns) *)
(* of every image written.                                                 *)
(***************************************************************************)
MaxImage    == 3    \* largest image width and height, in pixels
MaxContours == 2    \* most contours in one image

\* px/mm: target sizes of 2, 3 and 5 pixels.
Resolutions == {Frac(1, 5), Frac(1, 4), Frac(2, 5)}

\* cv2.boundingRect of a contour of the image: a box inside the image.
BoundingRects(img_width, img_height) ==
    {b \in [x : 0 .. img_width - 1, y : 0 .. img_height - 1,
            w : 1 .. img_width, h : 1 .. img_height] :
        b.x + b.w <= img_width /\ b.y + b.h <= img_height}

BeansArgs ==
    [resolution : Resolutions, img_width : 1 .. MaxImage,
     img_height : 1 .. MaxImage, contours : 0 .. MaxContours]

\* int(14.35 * resolution)
img_target_size(resolution) == (287 * resolution[1]) \div (20 * resolution[2])

\* The number of indices lo:hi selects on an axis of that size.
SliceLen(lo, hi, size) == Max(0, Min(hi, size) - Min(lo, size))

\* "anything smaller than 10 mm2"
Artifact(b, resolution) ==
    QLess(Whole(b.h * b.w), QMul(Whole(10), QMul(resolution, resolution)))

\* Padded only when both sides are short.
NeedsPaddingBoth(h, w, size) == h < size /\ w < size
\* "if h < img_target_size or w < img_target_size"
NeedsPadding(h, w, size) == h < size \/ w < size

\* Lines 86-110: the shape of the region of interest cut out for a bounding
\* box, or the error of an assignment between arrays of different shape.
Roi(b, size, img_width, img_height) ==
    LET center_x == b.x + b.w \div 2
        center_y == b.y + b.h \div 2
        x == Max(center_x - size \div 2, 0)
        y == Max(center_y - size \div 2, 0)
        w == IF x + size > img_width THEN img_width - x ELSE size
        h == IF y + size > img_height THEN img_height - y ELSE size
        roi == <<SliceLen(y, y + h, img_height), SliceLen(x, x + w, img_width)>>
        h_offset == (size - h) \div 2
        w_offset == (size - w) \div 2
        target == <<SliceLen(h_offset, h_offset + h, size),
                    SliceLen(w_offset, w_offset + w, size)>>
    IN  IF NeedsPadding(h, w, size)
        THEN IF target = roi
             THEN [kind |-> "image", shape |-> <<size, size>>, padded |-> TRUE]
             ELSE Raise("ValueError")
        ELSE [kind |-> "image", shape |-> roi, padded |-> FALSE]

InitBeans ==
    /\ args \in BeansArgs /\ result = NotCalled
    /\ IdleWire /\ IdleTW /\ IdleSC /\ IdleTS /\ IdleCpl

\* Sections 1 and 2 of the script, up to the loop.
load ==
    /\ result = NotCalled
    /\ result' = [kind |-> "run", size |-> img_target_size(args.resolution),
                  visited |-> 0, cnt |-> None, img_num |-> 1, written |-> <<>>]
    /\ UNCHANGED args /\ OnlyCall

\* One pass of "for cnt in contours".
contour ==
    /\ result.kind = "run" /\ result.visited < args.contours
    /\ \E b \in BoundingRects(args.img_width, args.img_height) :
         LET roi == Roi(b, result.size, args.img_width, args.img_height)
             seen == [result EXCEPT !.visited = @ + 1, !.cnt = b]
         IN  result' =
               IF Artifact(b, args.resolution) THEN seen
               ELSE IF roi.kind = "raised" THEN roi
               ELSE [seen EXCEPT !.img_num = @ + 1,
                                 !.written = Append(@, [num |-> result.img_num,
                                                        shape |-> roi.shape,
                                                        padded |-> roi.padded])]
    /\ UNCHANGED args /\ OnlyCall

NextBeans ==
    \/ load
    \/ contour

SpecBeans == InitBeans /\ [][NextBeans]_vars

\* C26: every bean image written is exactly img_target_size x img_target_size
\* pixels, for every bounding box that passes the size filter, wherever it
\* lies in the image, also on a border and in an image smaller than the
\* target size; no pass of the loop fails.
C26_EveryBeanImageHasTargetSize ==
    Done =>
        /\ result.kind = "run"
        /\ \A i \in DOMAIN result.written :
             result.written[i].shape
               = <<img_target_size(args.resolution), img_target_size(args.resolution)>>
C26_Witness ==
    /\ Done /\ result.kind = "run" /\ Len(result.written) = 2
    /\ ~result.written[1].padded /\ result.written[2].padded
    /\ result.img_num = 3 /\ result.cnt.x > 0
    /\ result.cnt.x + result.cnt.w = args.img_width

(***************************************************************************)
(*        Parts built from one measurement record, more than once          *)
(*                                                                         *)
(* measures is the caller's record, the one object every construction is   *)
(* handed; args names the part class and result lists, per construction,   *)
(* the dimensions the part was built with.                                 *)
(***************************************************************************)
MaxBuilds == 2    \* constructions from the same record

\* WallInsert records: the commented sample of wall_insert.py, with any of
\* the optional measures given or left out.
WallSides == {"left", "right", "top", "bottom"}
WallInsertRecords ==
    [width : {<<100>>}, height : {<<100>>}, thickness : {<<11>>},
     groove_depth : {<<8>>},
     center_offset : {Missing, <<(<<0, 0, 0>>)>>, <<(<<4, 0, -2>>)>>},
     grooves : [WallSides -> {Missing, <<TRUE>>}]]

\* PlateBracket records: the legs of the sample of plate_bracket.py.
PlateBracketRecords ==
    [horizontal_leg : [width : {15, 20}, depth : {60}, height : {8}],
     vertical_leg : [width : {15}, depth : {40, 60}, height : {6, 8}],
     center_block : {Missing}]

PartArgs == [class : {"TubeSocket", "WallInsert", "PlateBracket"}]
RecordsFor(class) ==
    CASE class = "TubeSocket"   -> {Record(P) : P \in Callers}
      [] class = "WallInsert"   -> WallInsertRecords
      [] class = "PlateBracket" -> PlateBracketRecords

\* WallInsert.__init__ and build, lines 33-53: the defaults are set on the
\* caller's record; offset is the vector object stored in center_offset.
WallInsert(m) ==
    LET flag(side) == IF Has(m.grooves, side) THEN m.grooves[side][1] ELSE FALSE
        offset == IF Has(m, "center_offset") THEN m.center_offset[1] ELSE <<0, 0, 0>>
        half == m.groove_depth[1] \div 2
        dx == (IF flag("right") /\ ~flag("left") THEN half ELSE 0)
              - (IF flag("left") /\ ~flag("right") THEN half ELSE 0)
        dz == (IF flag("top") /\ ~flag("bottom") THEN half ELSE 0)
              - (IF flag("bottom") /\ ~flag("top") THEN half ELSE 0)
    IN  [m EXCEPT !.center_offset = <<VAdd(offset, <<dx, 0, dz>>)>>,
                  !.grooves = [side \in WallSides |-> <<flag(side)>>]]

\* PlateBracket.__init__, lines 66-75.
PlateBracket(m) ==
    LET center_block ==
            [width |-> Max(m.horizontal_leg.width, m.vertical_leg.width),
             depth |-> m.vertical_leg.height,
             height |-> m.horizontal_leg.height]
    IN  [m EXCEPT !.center_block = <<center_block>>,
                  !.horizontal_leg.depth = @ - center_block.depth,
                  !.vertical_leg.depth = @ - center_block.height]

InitParts ==
    /\ args \in PartArgs
    /\ measures \in RecordsFor(args.class)
    /\ given = measures
    /\ tsPc = "new" /\ tsError = "none"
    /\ result = <<>>
    /\ IdleWire /\ IdleTW /\ IdleSC /\ IdleCpl

OnlyParts == UNCHANGED <<wireVars, twVars, scVars, cplVars, given, args>>

\* TubeSocket(workplane, measures): __init__ and build on the record.
constructTubeSocket ==
    /\ args.class = "TubeSocket"
    /\ tsPc # "AttributeError" /\ Len(result) < MaxBuilds
    /\ LET miss == FirstMissing(measures, AdaptReads)
           defaulted == FillDefaults(Adapt(measures), DefaultingOrder)
           miss_build == FirstMissing(defaulted, BuildReads)
       IN  IF miss # "none"
           THEN tsPc' = "AttributeError" /\ tsError' = miss
                /\ UNCHANGED <<measures, result>>
           ELSE IF miss_build # "none"
           THEN tsPc' = "AttributeError" /\ tsError' = miss_build
                /\ measures' = defaulted /\ UNCHANGED result
           ELSE /\ tsPc' = "built" /\ UNCHANGED tsError
                /\ measures' = Build(defaulted)
                /\ result' = Append(result,
                     [length_before_wall |-> defaulted["length_before_wall"][1],
                      length_after_wall |-> defaulted["length_after_wall"][1],
                      length |-> defaulted["length"][1]])
    /\ OnlyParts

\* WallInsert(workplane, measures)
constructWallInsert ==
    /\ args.class = "WallInsert"
    /\ Len(result) < MaxBuilds
    /\ measures' = WallInsert(measures)
    /\ result' = Append(result, [center_offset |-> measures'.center_offset[1]])
    /\ tsPc' = "built" /\ UNCHANGED tsError
    /\ OnlyParts

\* PlateBracket(workplane, measures)
constructPlateBracket ==
    /\ args.class = "PlateBracket"
    /\ Len(result) < MaxBuilds
    /\ measures' = PlateBracket(measures)
    /\ result' = Append(result,
         [horizontal_leg_depth |-> measures'.horizontal_leg.depth,
          vertical_leg_depth |-> measures'.vertical_leg.depth])
    /\ tsPc' = "built" /\ UNCHANGED tsError
    /\ OnlyParts

NextParts ==
    \/ constructTubeSocket
    \/ constructWallInsert
    \/ constructPlateBracket

SpecParts == InitParts /\ [][NextParts]_vars

\* C27: a part built twice from the same measurement record has the same
\* derived dimensions both times: length_before_wall and length_after_wall,
\* the wall insert's center_offset and the depth of the bracket legs are
\* not shifted by each construction.
C27_RecordIsInputOnly ==
    Len(result) = 2 => result[1] = result[2]

====
